---- MODULE Spec2Model ----
(***************************************************************************)
(* Model of scripts/import_models.py: the one-shot synchroniser that       *)
(* copies model files from a source models tree into a destination tree,   *)
(* maintains the destination best_models.json and optionally deletes the   *)
(* model files the manifest does not list.                                 *)
(*                                                                         *)
(* Environment modelled: the two directory trees, the two manifests, the   *)
(* temporary file of write_json, the wall clock, a failure of content      *)
(* hashing (caught by files_identical), a failure of unlink (not caught by *)
(* cleanup_old_models) and a crash between the steps of write_json.        *)
(* Environment not modelled: failures of copy2, mkdir and rename, and what  *)
(* a later invocation finds after a kill.                                  *)
(***************************************************************************)
EXTENDS Integers, Sequences, FiniteSets, TLC

\* ------------------------------------------------------------------ bounds

\* model_001.json .. model_<MaxId>.json
MaxId == 2
\* instants the wall clock can show are 0..MaxClock
MaxClock == 1
\* instants per calendar day (strftime splits an instant in date and time)
TicksPerDay == 2
\* content hashes that can fail during one sync
MaxHashFail == 1

\* ------------------------------------------------------------------ names

\* Directory names are sequences of characters: startswith('.') reads the first.
DirA == <<"A">>

DirB == <<"B">>

DirHidden == <<".", "o", "l", "d">>

\* A ruleset with no directory on either side.
DirC == <<"C">>

Dirs == {DirA, DirB, DirC, DirHidden}

\* File names are "<prefix><id as %03d><suffix>".
ModelName(i) == [prefix |-> "model_", id |-> i, suffix |-> ".json"]

\* A JSON file whose name the pattern model_*.json does not match.
OtherName == [prefix |-> "final", id |-> 0, suffix |-> ".json"]

Names == {ModelName(i) : i \in 1..MaxId} \cup {OtherName}

Paths == Dirs \X Names

\* ------------------------------------------------------------------ files

Absent == [exists |-> FALSE, content |-> 0, mtime |-> 0]

File(c, m) == [exists |-> TRUE, content |-> c, mtime |-> m]

EmptyTree == [p \in Paths |-> Absent]

\* A manifest file: absent, not parseable as JSON, or a JSON object.
NoManifest == [kind |-> "absent", data |-> <<>>]

Corrupt == [kind |-> "corrupt", data |-> <<>>]

Json(d) == [kind |-> "json", data |-> d]

\* An entry that is a dict with no "model_file" key.
Malformed == [date |-> 0, time |-> 0]

strftime_date(now) == now \div TicksPerDay

strftime_time(now) == now % TicksPerDay

Entry(model_filename, now) ==
  [model_file |-> model_filename, date |-> strftime_date(now), time |-> strftime_time(now)]

\* d[k] = v on a Python dict
Put(d, k, v) == [x \in DOMAIN d \cup {k} |-> IF x = k THEN v ELSE d[x]]

\* ------------------------------------------------------------------ helpers

startswith_dot(name) == Len(name) > 0 /\ name[1] = "."

\* Path.glob("model_*.json") on one file name
fnmatch_model(name) == name.prefix = "model_" /\ name.suffix = ".json"

\* The digest of a content; distinct contents of the model have distinct digests.
file_md5(f) == <<"md5", f.content>>

FilesIdenticalByStat(src_file, dst_file, hash_ok) ==
  /\ dst_file.exists
  /\ hash_ok
  /\ file_md5(src_file) = file_md5(dst_file)
  /\ src_file.mtime = dst_file.mtime

FilesIdenticalNever(src_file, dst_file, hash_ok) == FALSE

\* hash_ok is FALSE when file_md5 raises, for instance on a destination file that
\* cannot be read at that moment; the except clause then answers False
files_identical(src_file, dst_file, hash_ok) ==
  IF ~dst_file.exists THEN FALSE
  ELSE IF hash_ok THEN file_md5(src_file) = file_md5(dst_file)
  ELSE FALSE

\* shutil.copy2: content and metadata of the source
copy2(src_file) == File(src_file.content, src_file.mtime)

CopyIgnoringOverwriteFlag(src_file, dest_file, overwrite, dry_run, hash_ok) ==
  IF dest_file.exists /\ files_identical(src_file, dest_file, hash_ok)
  THEN [ret |-> FALSE, file |-> dest_file, mkdir |-> FALSE]
  ELSE IF dry_run
  THEN [ret |-> TRUE, file |-> dest_file, mkdir |-> FALSE]
  ELSE [ret |-> TRUE, file |-> copy2(src_file), mkdir |-> TRUE]

CopyDryRunWrites(src_file, dest_file, overwrite, dry_run, hash_ok) ==
  IF dest_file.exists /\ files_identical(src_file, dest_file, hash_ok)
  THEN [ret |-> FALSE, file |-> dest_file, mkdir |-> FALSE]
  ELSE IF dest_file.exists /\ ~overwrite
  THEN [ret |-> FALSE, file |-> dest_file, mkdir |-> FALSE]
  ELSE [ret |-> TRUE, file |-> copy2(src_file), mkdir |-> TRUE]

\* ret: the returned bool; file: dest_file afterwards; mkdir: ensure_dir ran
copy_model_file(src_file, dest_file, overwrite, dry_run, hash_ok) ==
  IF dest_file.exists /\ files_identical(src_file, dest_file, hash_ok)
  THEN [ret |-> FALSE, file |-> dest_file, mkdir |-> FALSE]
  ELSE IF dest_file.exists /\ ~overwrite
  THEN [ret |-> FALSE, file |-> dest_file, mkdir |-> FALSE]
  ELSE IF dry_run
  THEN [ret |-> TRUE, file |-> dest_file, mkdir |-> FALSE]
  ELSE [ret |-> TRUE, file |-> copy2(src_file), mkdir |-> TRUE]

\* ------------------------------------------------------------------ state

VARIABLES
  src,            \* the source models tree: [exists, dirs, files, manifest]
  dst,            \* destination model files, by <<directory, name>>
  dstDirs,        \* directories that exist under the destination root
  dstBest,        \* the file <dest>/best_models.json
  dstTmp,         \* the file <dest>/best_models.json.tmp
  pc,             \* position of the invocation; "idle" when none is running
  args,           \* the flags of the current (or last) invocation
  synced_models,  \* the dict the sync returned
  pending,        \* the dict write_json is writing
  exit_code,      \* the exit status once pc is "exit", -1 before
  ret,            \* history, kept until the sync has returned: what copy_model_file
                  \* returned, by destination path
  hashFail,       \* history, kept as long: destination paths whose hashing raised
  pre,            \* history: the destination when the invocation started
  mid,            \* history: the destination files and manifest when cleanup started
  failed          \* history: the paths whose unlink raised

vars == <<src, dst, dstDirs, dstBest, dstTmp, pc, args, synced_models, pending,
          exit_code, ret, hashFail, pre, mid, failed>>

Args == [all : BOOLEAN, cleanup : BOOLEAN, overwrite : BOOLEAN, dry_run : BOOLEAN]

\* ------------------------------------------------------------------ sync

\* One call of copy_model_file from a sync loop, and the bookkeeping around it.
\* acc = [dst, dirs, ret, synced]
SyncOne(acc, dir, name, src_file, overwrite, dry_run, hf) ==
  LET p == <<dir, name>>
      r == copy_model_file(src_file, acc.dst[p], overwrite, dry_run, p \notin hf)
  IN [dst    |-> [acc.dst EXCEPT ![p] = r.file],
      dirs   |-> IF r.mkdir THEN acc.dirs \cup {dir} ELSE acc.dirs,
      ret    |-> Put(acc.ret, p, r.ret),
      synced |-> IF r.ret THEN Put(acc.synced, dir, name) ELSE acc.synced]

RECURSIVE sync_best_loop(_, _, _, _, _, _)
sync_best_loop(todo, acc, s, overwrite, dry_run, hf) ==
  IF todo = {} THEN acc
  ELSE LET ruleset == CHOOSE c \in todo : TRUE
           entry == s.manifest.data[ruleset]
           rest == todo \ {ruleset}
       IN IF "model_file" \notin DOMAIN entry
          THEN sync_best_loop(rest, acc, s, overwrite, dry_run, hf)
          ELSE IF ~s.files[<<ruleset, entry.model_file>>].exists
          THEN sync_best_loop(rest, acc, s, overwrite, dry_run, hf)
          ELSE sync_best_loop(rest,
                 SyncOne(acc, ruleset, entry.model_file,
                         s.files[<<ruleset, entry.model_file>>], overwrite, dry_run, hf),
                 s, overwrite, dry_run, hf)

sync_best_models(s, acc, overwrite, dry_run, hf) ==
  IF s.manifest.kind # "json" THEN acc
  ELSE sync_best_loop(DOMAIN s.manifest.data, acc, s, overwrite, dry_run, hf)

RECURSIVE SortedDescending(_)
SortedDescending(S) ==
  IF S = {} THEN <<>>
  ELSE LET m == CHOOSE x \in S : \A y \in S : x.id >= y.id
       IN <<m>> \o SortedDescending(S \ {m})

\* sorted(): the matched names differ in their zero-padded id only
RECURSIVE sorted(_)
sorted(S) ==
  IF S = {} THEN <<>>
  ELSE LET m == CHOOSE x \in S : \A y \in S : x.id <= y.id
       IN <<m>> \o sorted(S \ {m})

\* the model files of one source directory, in processing order
model_files(s, dir) ==
  sorted({n \in Names : s.files[<<dir, n>>].exists /\ fnmatch_model(n)})

RECURSIVE sync_dir_loop(_, _, _, _, _, _, _, _)
sync_dir_loop(files, i, acc, s, dir, overwrite, dry_run, hf) ==
  IF i > Len(files) THEN acc
  ELSE sync_dir_loop(files, i + 1,
         SyncOne(acc, dir, files[i], s.files[<<dir, files[i]>>], overwrite, dry_run, hf),
         s, dir, overwrite, dry_run, hf)

RECURSIVE sync_all_loop(_, _, _, _, _, _)
sync_all_loop(todo, acc, s, overwrite, dry_run, hf) ==
  IF todo = {} THEN acc
  ELSE LET ruleset_dir == CHOOSE d \in todo : TRUE
           rest == todo \ {ruleset_dir}
       IN IF ~ruleset_dir.is_dir \/ startswith_dot(ruleset_dir.name)
          THEN sync_all_loop(rest, acc, s, overwrite, dry_run, hf)
          ELSE sync_all_loop(rest,
                 sync_dir_loop(model_files(s, ruleset_dir.name), 1, acc, s,
                               ruleset_dir.name, overwrite, dry_run, hf),
                 s, overwrite, dry_run, hf)

BEST_MODELS_FILENAME == <<"best_models.json">>

\* Path.iterdir() of a models root: its directories and its manifest file
iterdir(dirs, manifest) ==
  {[name |-> d, is_dir |-> TRUE] : d \in dirs}
    \cup (IF manifest.kind # "absent"
          THEN {[name |-> BEST_MODELS_FILENAME, is_dir |-> FALSE]} ELSE {})

sync_all_models(s, acc, overwrite, dry_run, hf) ==
  sync_all_loop(iterdir(s.dirs, s.manifest), acc, s, overwrite, dry_run, hf)

\* ------------------------------------------------------------------ manifest

\* read_json of the destination manifest, {} when it is absent or unreadable
read_dest_best(best) == IF best.kind = "json" THEN best.data ELSE <<>>

MergeStartingFresh(dest_best, synced, now) ==
  [c \in DOMAIN synced |-> Entry(synced[c], now)]

\* the loop "for ruleset, model_filename in synced_models.items()"
merge_synced(dest_best, synced, now) ==
  [c \in DOMAIN dest_best \cup DOMAIN synced |->
     IF c \in DOMAIN synced THEN Entry(synced[c], now) ELSE dest_best[c]]

\* ------------------------------------------------------------------ cleanup

BestIgnoringRuleset(data) ==
  {p \in Paths : \E c \in DOMAIN data :
     "model_file" \in DOMAIN data[c] /\ data[c].model_file = p[2]}

BestNothing(data) == {}

\* the set best_model_files
best_model_files(data) ==
  {<<c, data[c].model_file>> : c \in {x \in DOMAIN data : "model_file" \in DOMAIN data[x]}}

\* the directories cleanup scans
scanned_dirs(dirs, manifest) ==
  {e.name : e \in {x \in iterdir(dirs, manifest) : x.is_dir /\ ~startswith_dot(x.name)}}

\* the files cleanup unlinks (or reports, in a dry run): the non-best matches
cleanup_targets(tree, dirs, manifest) ==
  {p \in Paths : /\ p[1] \in scanned_dirs(dirs, manifest)
                 /\ tree[p].exists
                 /\ fnmatch_model(p[2])
                 /\ p \notin best_model_files(manifest.data)}

unlink(tree, S) == [p \in Paths |-> IF p \in S THEN Absent ELSE tree[p]]

\* Directories and their matches come in the order the file system lists them.
\* When unlink raises on f the loops stop: what is gone then is, for some such
\* order, every target of the directories listed before f's and the targets of
\* f's directory listed before f.
DeletedBefore(T, f) ==
  {S \in SUBSET (T \ {f}) :
     \A p \in S : p[1] # f[1] => \A q \in T : q[1] = p[1] => q \in S}

\* ------------------------------------------------------------------ write_json

WriteInPlaceOpen(best, tmp) == [best |-> Corrupt, tmp |-> tmp]

\* tmp.open("w"): the temporary file exists and is empty
write_json_open(best, tmp) == [best |-> best, tmp |-> Corrupt]

\* json.dump, the final newline and the close of the with block
write_json_dump(best, tmp, data) == [best |-> best, tmp |-> Json(data)]

\* tmp.replace(path)
write_json_replace(best, tmp) == [best |-> tmp, tmp |-> NoManifest]

\* ------------------------------------------------------------------ initial states

\* Every source file has content 1 and modification time 1; a destination file
\* that was not copied by this program has modification time 0.
SrcFiles ==
  [p \in Paths |->
     IF \/ p[1] = DirA
        \/ p[1] = DirB /\ p[2] = ModelName(1)
        \/ p[1] = DirHidden /\ p[2] = ModelName(1)
     THEN File(1, 1) ELSE Absent]

\* The readable manifest holds the three kinds of entry: the files of DirA and
\* DirB exist in the source, DirC's does not, the hidden one is malformed.
SrcManifests ==
  {Corrupt,
   Json((DirA :> Entry(ModelName(1), 0)) @@ (DirB :> Entry(ModelName(1), 0))
          @@ (DirC :> Entry(ModelName(1), 0)) @@ (DirHidden :> Malformed))}

Sources ==
  {[exists |-> FALSE, dirs |-> {}, files |-> EmptyTree, manifest |-> NoManifest]}
    \cup {[exists |-> TRUE, dirs |-> Dirs \ {DirC}, files |-> SrcFiles, manifest |-> m] :
            m \in SrcManifests}

DstFileValues == {Absent, File(1, 0), File(2, 0)}

\* Initially the destination holds up to two model files of DirA (the first and
\* the last), possibly DirB's with another content, and always the hidden one and a file of
\* DirA that is no model_*.json.
DstTrees ==
  {[p \in Paths |->
      IF p = <<DirHidden, ModelName(1)>> THEN File(2, 0)
      ELSE IF p = <<DirA, ModelName(MaxId)>> THEN z
      ELSE IF p = <<DirA, ModelName(1)>> THEN a
      ELSE IF p = <<DirB, ModelName(1)>> THEN b
      ELSE IF p = <<DirA, OtherName>> THEN File(2, 0)
      ELSE Absent] :
     a \in DstFileValues, z \in DstFileValues, b \in {Absent, File(2, 0)}}

DstManifests ==
  {NoManifest, Corrupt, Json(DirA :> Entry(ModelName(1), 0)),
   Json((DirA :> Malformed) @@ (DirB :> Entry(ModelName(1), 0)))}

NoArgs == [all |-> FALSE, cleanup |-> FALSE, overwrite |-> FALSE, dry_run |-> FALSE]

Init ==
  /\ src \in Sources
  /\ dst \in DstTrees
  /\ dstDirs = Dirs \ {DirC}
  /\ dstBest \in DstManifests
  /\ dstTmp = NoManifest
  /\ pc = "idle"
  /\ args = NoArgs
  /\ synced_models = <<>>
  /\ pending = <<>>
  /\ exit_code = -1
  /\ ret = <<>>
  /\ hashFail = {}
  /\ pre = [dst |-> dst, dirs |-> dstDirs, best |-> dstBest, tmp |-> dstTmp]
  /\ mid = [dst |-> dst, best |-> dstBest]
  /\ failed = {}

\* ------------------------------------------------------------------ actions

sync(s, acc, a, hf) ==
  IF a.all THEN sync_all_models(s, acc, a.overwrite, a.dry_run, hf)
  ELSE sync_best_models(s, acc, a.overwrite, a.dry_run, hf)

\* the destination paths whose content this sync hashes: the existing ones it reaches
hashed(s, tree, dirs, a) ==
  {p \in DOMAIN sync(s, [dst |-> tree, dirs |-> dirs, ret |-> <<>>, synced |-> <<>>],
                     a, {}).ret : tree[p].exists}

\* main up to "return 2": the source models directory does not exist
MainNoSource ==
  /\ pc = "idle"
  /\ ~src.exists
  /\ \E a \in Args : args' = a
  /\ exit_code' = 2
  /\ synced_models' = <<>>
  /\ pending' = <<>>
  /\ ret' = <<>>
  /\ hashFail' = {}
  /\ pre' = [dst |-> dst, dirs |-> dstDirs, best |-> dstBest, tmp |-> dstTmp]
  /\ mid' = [dst |-> dst, best |-> dstBest]
  /\ failed' = {}
  /\ pc' = "exit"
  /\ UNCHANGED <<src, dst, dstDirs, dstBest, dstTmp>>

\* main up to the return of sync_all_models or sync_best_models
MainSync ==
  /\ pc = "idle"
  /\ src.exists
  /\ \E a \in Args :
       \E hf \in {h \in SUBSET hashed(src, dst, dstDirs, a) :
                    Cardinality(h) <= MaxHashFail} :
         LET acc == sync(src, [dst |-> dst, dirs |-> dstDirs, ret |-> <<>>, synced |-> <<>>],
                         a, hf)
         IN /\ args' = a
            /\ dst' = acc.dst
            /\ dstDirs' = acc.dirs
            /\ synced_models' = acc.synced
            /\ ret' = acc.ret
            /\ hashFail' = hf
  /\ pc' = "update"
  /\ pending' = <<>>
  /\ pre' = [dst |-> dst, dirs |-> dstDirs, best |-> dstBest, tmp |-> dstTmp]
  /\ mid' = [dst |-> dst, best |-> dstBest]
  /\ failed' = {}
  /\ UNCHANGED <<src, dstBest, dstTmp, exit_code>>

\* main's "if synced_models", and update_dest_best_models up to write_json's open
Update ==
  /\ pc = "update"
  /\ IF DOMAIN synced_models = {} \/ args.dry_run
     THEN /\ pc' = "cleanup"
          /\ UNCHANGED <<pending, dstBest, dstTmp>>
     ELSE \E now \in 0..MaxClock :
            LET w == write_json_open(dstBest, dstTmp)
            IN /\ pending' = merge_synced(read_dest_best(dstBest), synced_models, now)
               /\ dstBest' = w.best
               /\ dstTmp' = w.tmp
               /\ pc' = "write_dump"
  /\ ret' = <<>>
  /\ hashFail' = {}
  /\ UNCHANGED <<src, dst, dstDirs, args, synced_models, exit_code, pre, mid, failed>>

WriteDump ==
  /\ pc = "write_dump"
  /\ LET w == write_json_dump(dstBest, dstTmp, pending)
     IN dstBest' = w.best /\ dstTmp' = w.tmp
  /\ pc' = "write_replace"
  /\ UNCHANGED <<src, dst, dstDirs, args, synced_models, pending, exit_code, ret,
                 hashFail, pre, mid, failed>>

WriteReplace ==
  /\ pc = "write_replace"
  /\ LET w == write_json_replace(dstBest, dstTmp)
     IN dstBest' = w.best /\ dstTmp' = w.tmp
  /\ pc' = "cleanup"
  /\ UNCHANGED <<src, dst, dstDirs, args, synced_models, pending, exit_code, ret,
                 hashFail, pre, mid, failed>>

\* The process is killed inside write_json; what follows a kill is not explored.
Kill ==
  /\ pc \in {"write_dump", "write_replace"}
  /\ pc' = "killed"
  /\ exit_code' = 137
  /\ UNCHANGED <<src, dst, dstDirs, dstBest, dstTmp, args, synced_models, pending,
                 ret, hashFail, pre, mid, failed>>

\* does cleanup_old_models reach an unlink
cleanup_deletes(a, manifest) == a.cleanup /\ manifest.kind = "json" /\ ~a.dry_run

\* main's "if args.cleanup" to "return 0", every unlink succeeding
Cleanup ==
  /\ pc = "cleanup"
  /\ mid' = [dst |-> dst, best |-> dstBest]
  /\ dst' = IF cleanup_deletes(args, dstBest)
            THEN unlink(dst, cleanup_targets(dst, dstDirs, dstBest))
            ELSE dst
  /\ failed' = {}
  /\ exit_code' = 0
  /\ pc' = "exit"
  /\ UNCHANGED <<src, dstDirs, dstBest, dstTmp, args, synced_models, pending, ret,
                 hashFail, pre>>

\* cleanup_old_models when model_file.unlink() raises: the exception leaves main
CleanupRaise ==
  /\ pc = "cleanup"
  /\ cleanup_deletes(args, dstBest)
  /\ \E f \in cleanup_targets(dst, dstDirs, dstBest) :
       \E S \in DeletedBefore(cleanup_targets(dst, dstDirs, dstBest), f) :
         /\ dst' = unlink(dst, S)
         /\ failed' = {f}
  /\ mid' = [dst |-> dst, best |-> dstBest]
  /\ exit_code' = 1
  /\ pc' = "exit"
  /\ UNCHANGED <<src, dstDirs, dstBest, dstTmp, args, synced_models, pending, ret,
                 hashFail, pre>>

\* The process ends: what remains is the two trees.
Exit ==
  /\ pc = "exit"
  /\ pc' = "idle"
  /\ args' = NoArgs
  /\ synced_models' = <<>>
  /\ pending' = <<>>
  /\ exit_code' = -1
  /\ ret' = <<>>
  /\ hashFail' = {}
  /\ pre' = [dst |-> dst, dirs |-> dstDirs, best |-> dstBest, tmp |-> dstTmp]
  /\ mid' = [dst |-> dst, best |-> dstBest]
  /\ failed' = {}
  /\ UNCHANGED <<src, dst, dstDirs, dstBest, dstTmp>>

Next ==
  \/ MainNoSource
  \/ MainSync
  \/ Update
  \/ WriteDump
  \/ WriteReplace
  \/ Kill
  \/ Cleanup
  \/ CleanupRaise
  \/ Exit

Spec == Init /\ [][Next]_vars

\* ------------------------------------------------------------------ properties

\* the sync of a live invocation has just returned
SyncReturned == pc = "update"

Differs(p) == pre.dst[p].exists /\ pre.dst[p].content # src.files[p].content

SameContent(p) == pre.dst[p].exists /\ pre.dst[p].content = src.files[p].content

\* C1: overwrite gate. In a live run, for a destination file that exists with a
\* content other than the source's: without --overwrite the file is left as it
\* was and copy_model_file returns false; with --overwrite its content becomes
\* the source's and copy_model_file returns true.
C1_OverwriteGate ==
  (SyncReturned /\ ~args.dry_run) =>
    \A p \in DOMAIN ret :
      Differs(p) =>
        IF args.overwrite
        THEN ret[p] /\ dst[p].exists /\ dst[p].content = src.files[p].content
        ELSE ~ret[p] /\ dst[p] = pre.dst[p]

C1_Witness ==
  /\ SyncReturned
  /\ ~args.dry_run
  /\ args.overwrite
  /\ \E p \in DOMAIN ret :
       Differs(p) /\ ret[p] /\ dst[p].content = src.files[p].content

\* C2 as claimed: a destination file with the source's content makes
\* copy_model_file return false and copy nothing, whatever overwrite and dry-run
\* are and whatever the modification times are.
C2_IdenticalNeverCopied ==
  SyncReturned =>
    \A p \in DOMAIN ret : SameContent(p) => ~ret[p] /\ dst[p] = pre.dst[p]

\* C2 amended: the same, for the files whose content hashes could be computed
\* (a hash that raises makes files_identical answer "not identical").
C2_IdenticalHashedNeverCopied ==
  SyncReturned =>
    \A p \in DOMAIN ret :
      (SameContent(p) /\ p \notin hashFail) => ~ret[p] /\ dst[p] = pre.dst[p]

C2_Witness ==
  /\ SyncReturned
  /\ args.overwrite
  /\ ~args.dry_run
  /\ \E p \in DOMAIN ret :
       /\ SameContent(p)
       /\ p \notin hashFail
       /\ pre.dst[p].mtime # src.files[p].mtime
       /\ ~ret[p]
       /\ dst[p] = pre.dst[p]

\* what a second sync-best, run now with the same flags, returns when the
\* hashing of the paths hf raises
SecondSyncBest(hf) ==
  sync_best_models(src, [dst |-> dst, dirs |-> dstDirs, ret |-> <<>>, synced |-> <<>>],
                   args.overwrite, FALSE, hf)

CopiesNothing(acc) ==
  DOMAIN acc.synced = {} /\ acc.dst = dst /\ acc.dirs = dstDirs

\* a live sync-best has just returned
SyncBestReturned == SyncReturned /\ ~args.all /\ ~args.dry_run

\* C3 as claimed: after a live sync-best, a second sync-best with the same
\* overwrite setting and the same source copies nothing, whatever happens in it.
C3_SecondRunCopiesNothing ==
  SyncBestReturned =>
    \A hf \in {h \in SUBSET hashed(src, dst, dstDirs, args) : Cardinality(h) <= MaxHashFail} :
      CopiesNothing(SecondSyncBest(hf))

\* C3 amended: the second sync-best copies nothing provided the content hashes it
\* takes can be computed.
C3_SecondRunCopiesNothingWhenHashed ==
  SyncBestReturned => CopiesNothing(SecondSyncBest({}))

C3_Witness ==
  /\ SyncBestReturned
  /\ args.overwrite
  /\ \E p \in DOMAIN ret : Differs(p) /\ ret[p]
  /\ \E p \in DOMAIN SecondSyncBest({}).ret : ~SecondSyncBest({}).ret[p]
  /\ CopiesNothing(SecondSyncBest({}))

\* the (ruleset, file name) pairs the manifest m lists
Listed(m) ==
  {p \in Paths : /\ m.kind = "json"
                 /\ p[1] \in DOMAIN m.data
                 /\ "model_file" \in DOMAIN m.data[p[1]]
                 /\ m.data[p[1]].model_file = p[2]}

\* a model_*.json of a directory that is not hidden
Prunable(p) ==
  /\ p[1] \in dstDirs
  /\ p[1][1] # "."
  /\ p[2].prefix = "model_"
  /\ p[2].suffix = ".json"

\* a live cleanup that read the manifest has returned
CleanupReturned ==
  /\ pc = "exit"
  /\ exit_code = 0
  /\ args.cleanup
  /\ ~args.dry_run
  /\ mid.best.kind = "json"

\* C4: after a live cleanup with a readable manifest, a model_*.json of a
\* directory that is not hidden exists if and only if it existed before and the
\* manifest lists it; every file that is left is as it was, and so are the files
\* the pattern does not match, the hidden directories and the manifest.
C4_CleanupDeletesExactlyNonBest ==
  CleanupReturned =>
    /\ \A p \in Paths :
         IF Prunable(p)
         THEN /\ dst[p].exists <=> (mid.dst[p].exists /\ p \in Listed(mid.best))
              /\ dst[p].exists => dst[p] = mid.dst[p]
         ELSE dst[p] = mid.dst[p]
    /\ dstBest = mid.best

C4_Witness ==
  /\ CleanupReturned
  /\ \E p \in Paths : Prunable(p) /\ mid.dst[p].exists /\ ~dst[p].exists
  /\ \E p \in Paths : Prunable(p) /\ p \in Listed(mid.best) /\ dst[p].exists
  /\ \E p \in Paths : ~Prunable(p) /\ p[1][1] # "." /\ dst[p].exists
  /\ \E p \in Paths : p[1][1] = "." /\ dst[p].exists /\ p \notin Listed(mid.best)

\* C5: an invocation with --dry-run leaves the destination as it found it: the
\* model files, the directories, the manifest and the temporary file.
C5_DryRunNoSideEffects ==
  (pc # "idle" /\ args.dry_run) =>
    /\ dst = pre.dst
    /\ dstDirs = pre.dirs
    /\ dstBest = pre.best
    /\ dstTmp = pre.tmp

C5_Witness ==
  /\ pc = "exit"
  /\ args.dry_run
  /\ args.cleanup
  /\ args.overwrite
  /\ DOMAIN synced_models # {}
  /\ \E p \in Paths : ~pre.dst[p].exists /\ src.files[p].exists /\ synced_models[p[1]] = p[2]
  /\ dstBest.kind = "json"
  /\ \E p \in Paths : Prunable(p) /\ dst[p].exists /\ p \notin Listed(dstBest)

\* C6: from the open of write_json on, killed or not, the manifest path holds
\* the complete previous manifest (or nothing, if there was none) or the
\* complete new one; only the temporary file is ever partly written.
C6_ManifestOldOrNew ==
  (pc \notin {"idle", "update"}) =>
    \/ dstBest = pre.best
    \/ DOMAIN pending # {} /\ dstBest = Json(pending)

C6_Witness ==
  /\ pc = "killed"
  /\ dstTmp = Corrupt
  /\ pre.best.kind = "json"
  /\ dstBest = pre.best
  /\ Json(pending) # pre.best

\* update_dest_best_models has returned in a live invocation whose manifest was
\* readable or absent
UpdateReturned ==
  pc = "cleanup" /\ ~args.dry_run /\ pre.best.kind \in {"json", "absent"}

\* C7: after a live update with a non-empty sync result every ruleset of the
\* result has an entry naming the synced file and every other ruleset has the
\* entry it had, or none as before; with an empty result the manifest and the
\* temporary file are as they were.
C7_UpsertAndFrame ==
  UpdateReturned =>
    IF DOMAIN synced_models = {}
    THEN dstBest = pre.best /\ dstTmp = pre.tmp
    ELSE /\ dstBest.kind = "json"
         /\ \A c \in DOMAIN synced_models :
              /\ c \in DOMAIN dstBest.data
              /\ "model_file" \in DOMAIN dstBest.data[c]
              /\ dstBest.data[c].model_file = synced_models[c]
         /\ \A c \in Dirs \ DOMAIN synced_models :
              /\ c \in DOMAIN dstBest.data <=> c \in DOMAIN pre.best.data
              /\ c \in DOMAIN dstBest.data => dstBest.data[c] = pre.best.data[c]

C7_Witness ==
  /\ UpdateReturned
  /\ pre.best.kind = "json"
  /\ \E c \in DOMAIN synced_models :
       c \in DOMAIN pre.best.data /\ dstBest.data[c] # pre.best.data[c]
  /\ \E c \in DOMAIN pre.best.data :
       c \notin DOMAIN synced_models /\ dstBest.data[c] = pre.best.data[c]

\* a sync-all has just returned
SyncAllReturned == SyncReturned /\ args.all

\* the model_*.json names of the source directory d
Matched(d) ==
  {n \in Names : src.files[<<d, n>>].exists /\ n.prefix = "model_" /\ n.suffix = ".json"}

\* the source directories sync-all scans
Scanned == {d \in src.dirs : d[1] # "."}

\* the last name of S in sorted order
Last(S) == CHOOSE n \in S : \A m \in S : m.id <= n.id

\* C8 as claimed: the result of sync-all for a ruleset is the last of its
\* model_*.json in sorted order, whatever the destination held.
C8_ResultIsLastMatch ==
  SyncAllReturned =>
    \A d \in Scanned :
      Matched(d) # {} => d \in DOMAIN synced_models /\ synced_models[d] = Last(Matched(d))

\* the names of d for which copy_model_file returned true
Copied(d) == {n \in Matched(d) : ret[<<d, n>>]}

\* C8 amended: the result of sync-all for a ruleset is the last, in sorted order,
\* of its model_*.json that copy_model_file copied (or would copy, in a dry run);
\* a ruleset none of whose files was copied has no entry.
C8_ResultIsLastCopied ==
  SyncAllReturned =>
    /\ DOMAIN synced_models = {d \in Scanned : Copied(d) # {}}
    /\ \A d \in DOMAIN synced_models : synced_models[d] = Last(Copied(d))

C8_Witness ==
  /\ SyncAllReturned
  /\ Cardinality(Copied(DirA)) >= 2
  /\ Copied(DirA) = Matched(DirA)
  /\ synced_models[DirA] = Last(Matched(DirA))

\* the files cleanup set out to delete
ToDelete == {p \in Paths : Prunable(p) /\ mid.dst[p].exists /\ p \notin Listed(mid.best)}

\* C9 as claimed: when an unlink fails during a live cleanup, every other
\* non-best model file is still deleted and the invocation exits with status 0.
C9_UnlinkFailureIsolated ==
  (pc = "exit" /\ failed # {}) =>
    /\ exit_code = 0
    /\ \A p \in ToDelete \ failed : ~dst[p].exists

\* every entry of the destination manifest names a file of its ruleset's directory
ManifestValid == \A p \in Listed(dstBest) : dst[p].exists

\* C10: no step of an invocation, dry or live, killed or not, invalidates the
\* destination manifest: if every entry named an existing file before the step,
\* every entry does after it. From a valid destination the invariant therefore
\* holds after any sequence of runs.
C10_ManifestStaysValid == [][ManifestValid => ManifestValid']_vars

C10_Witness ==
  /\ pc = "exit"
  /\ exit_code = 0
  /\ args.cleanup
  /\ ~args.dry_run
  /\ pre.best.kind = "json"
  /\ \A p \in Listed(pre.best) : pre.dst[p].exists
  /\ dstBest # pre.best
  /\ ToDelete # {}
  /\ ManifestValid

====
